---- MODULE Spec2Model ----
(***************************************************************************)
(* A model of the two HTTP CRUD services of the repository:                *)
(*   python_fast_apifull.py  the blog API (users, posts, comments), async  *)
(*                           handlers over the `databases` query interface *)
(*   python_rest_api.py      the items API, sync handlers over one         *)
(*                           SQLAlchemy Session per request                *)
(*                                                                         *)
(* Storage is SQLite.  A table is the sequence of its rows in rowid order. *)
(* The id columns are INTEGER PRIMARY KEY without AUTOINCREMENT, so an     *)
(* insert gets the largest id of the table plus one: rowid order is        *)
(* insertion order, and the id of a deleted last row is handed out again.  *)
(* A SELECT without ORDER BY scans the table in rowid order.               *)
(*                                                                         *)
(* A handler is cut into steps at the points where other requests can run: *)
(* at every awaited statement of the blog API (each statement commits on   *)
(* its own), and at every statement a Session sends in the items API       *)
(* (handlers run on worker threads).  datetime.utcnow is the variable      *)
(* `now`, which only moves forward.                                        *)
(***************************************************************************)
EXTENDS Integers, Sequences, FiniteSets, TLC

\* ------------------------------------------------------------- bounds
MaxReqs == 3     \* requests taken in one behaviour
MaxTime == 1     \* clock ticks in one behaviour
MaxSkip == 2     \* largest skip/limit tried besides the defaults
MaxListRows == 15 \* rows inserted in the listing specification

\* The workers.  Every race of the handlers is one between two requests: a lookup of one
\* and a write of the other.
Procs == { 1, 2 }

\* ------------------------------------------------------------- inputs
PostBodies == { [title |-> "t1", content |-> "c1"], [title |-> "t2", content |-> "c2"] }
UserNames == { "ann", "bob" }
CallerIds == { 7 }
CommentTexts == { "hi" }

VARIABLES
  service,   \* which program runs: "blog" or "items"
  now,       \* datetime.utcnow()
  users,     \* table users
  posts,     \* table posts
  comments,  \* table comments
  items,     \* table items
  sessions,  \* the Sessions SessionLocal has made
  reqs,      \* the request each worker handles
  budget,    \* requests the server will still take
  last,      \* the response the last step sent, Idle if it sent none
  hist       \* per post id: the create_post that inserted the row now holding it

vars == << service, now, users, posts, comments, items, sessions, reqs, budget, last, hist >>

\* ------------------------------------------------------------- values
None == [none |-> TRUE]
default_skip == 0
default_limit_posts == 10
default_limit_items == 100

Idle == [ op |-> "none", pc |-> "idle" ]

\* ------------------------------------------------------------- storage
RECURSIVE MaxOf(_)
MaxOf(rows) ==
  IF rows = << >> THEN 0
  ELSE LET m == MaxOf(Tail(rows)) IN IF Head(rows).id > m THEN Head(rows).id ELSE m

\* cursor.lastrowid of an INSERT that names no id
lastrowid(rows) == MaxOf(rows) + 1

Where(rows, id) == SelectSeq(rows, LAMBDA r : r.id = id)

\* fetch_one / Query.first(): the first row, or None
fetch_one(rows) == IF rows = << >> THEN None ELSE rows[1]

DeleteWhere_next(rows, id) == SelectSeq(rows, LAMBDA r : r.id /= id + 1)

\* DELETE ... WHERE id = :id
DeleteWhere(rows, id) == SelectSeq(rows, LAMBDA r : r.id /= id)

Ids(rows) == { rows[i].id : i \in 1..Len(rows) }

\* OFFSET n: a negative n counts as 0
RECURSIVE Offset(_, _)
Offset(rows, n) ==
  IF n <= 0 \/ rows = << >> THEN rows ELSE Offset(Tail(rows), n - 1)

RECURSIVE Limit_inclusive(_, _)
Limit_inclusive(rows, n) ==
  IF n < 0 \/ rows = << >> THEN rows
  ELSE IF n = 0 THEN << Head(rows) >>
  ELSE << Head(rows) >> \o Limit_inclusive(Tail(rows), n - 1)

\* LIMIT n: a negative n is no limit
RECURSIVE Limit(_, _)
Limit(rows, n) ==
  IF n < 0 THEN rows
  ELSE IF n = 0 \/ rows = << >> THEN << >>
  ELSE << Head(rows) >> \o Limit(Tail(rows), n - 1)

\* ------------------------------------------------------------- requests
\* hist[id] tells what this run knows of post id: "old" (a row of an earlier run), "fresh"
\* (inserted by the create_post it names, not updated or deleted since), "touched"
\* (updated since its insert), "deleted" (deleted, the id not handed out since).
\* A request as the router hands it to its handler, and later its response.  t0 (when it
\* arrived), stored, after_delete, fresh and writes record what happened to it; no
\* handler reads them.
Request(op, id, body, skip, limit) ==
  [ op |-> op, pc |-> "start", id |-> id, body |-> body, skip |-> skip, limit |-> limit,
    row |-> None, last_record_id |-> 0, db |-> 0,
    status |-> 0, detail |-> "", out |-> None,
    t0 |-> now, stored |-> -1, after_delete |-> FALSE, fresh |-> None, writes |-> 0 ]

Untracked == [ state |-> "untracked" ]
Hist(id) == IF id \in 1..Len(hist) THEN hist[id] ELSE Untracked

\* The server hands a request to worker p; idle workers are alike, so the first takes it.
Accept(p) ==
  /\ reqs[p].pc = "idle"
  /\ \A q \in Procs : q < p => reqs[q].pc /= "idle"
  /\ budget > 0
  /\ budget' = budget - 1

\* the handler of p goes on to its next statement
Continue(p, r) ==
  /\ reqs' = [reqs EXCEPT ![p] = r]
  /\ last' = Idle

\* the response of p is sent
Answer(p, r) ==
  /\ last' = r
  /\ reqs' = [reqs EXCEPT ![p] = Idle]

Tick ==
  /\ service = "blog"
  /\ now < MaxTime
  /\ now' = now + 1
  /\ last' = Idle
  /\ UNCHANGED << service, users, posts, comments, items, sessions, reqs, budget, hist >>

Respond(r, status, detail, out) ==
  [r EXCEPT !.pc = "done", !.status = status, !.detail = detail, !.out = out]

\* ------------------------------------------------------------- blog API
general_exception_handler(r) ==
  Respond(r, 500, "An unexpected error occurred", None)

http_exception_handler(r, status, detail) ==
  Respond(r, status, detail, None)

create_user_id_caller(user, last_record_id) == user.id

\* the id create_user answers with
create_user_id(user, last_record_id) == last_record_id

create_user(p, user) ==
  /\ service = "blog"
  /\ Accept(p)
  /\ LET r == Request("create_user", 0, user, 0, 0)
         last_record_id == lastrowid(users)
     IN IF \E i \in 1..Len(users) : users[i].username = user.username
        THEN \* username is unique: the insert raises, the general handler answers
             /\ users' = users
             /\ Answer(p, general_exception_handler(r))
        ELSE /\ users' = Append(users, [ id |-> last_record_id, username |-> user.username,
                                         hashed_password |-> "dummy_hash" ])
             /\ Answer(p, [Respond(r, 200, "", [ id |-> create_user_id(user, last_record_id),
                                                  username |-> user.username ])
                             EXCEPT !.last_record_id = last_record_id, !.writes = 1])
  /\ UNCHANGED << service, now, posts, comments, items, sessions, hist >>

PostRow_import_time(id, post) ==
  [ id |-> id, title |-> post.title, content |-> post.content, created_at |-> 0 ]

\* the row posts.insert().values(title, content) stores; created_at is the column default
PostRow(id, post) ==
  [ id |-> id, title |-> post.title, content |-> post.content, created_at |-> now ]

ResponseCreatedAt_arrival(r) == r.t0

\* the created_at of the create_post and create_comment responses
ResponseCreatedAt(r) == now

\* the request arrived at t0, some time before its insert runs
create_post_insert(p, post, t0) ==
  /\ service = "blog"
  /\ Accept(p)
  /\ LET r == [Request("create_post", 0, post, 0, 0) EXCEPT !.t0 = t0]
         last_record_id == lastrowid(posts)
     IN /\ posts' = Append(posts, PostRow(last_record_id, post))
        /\ Continue(p, [r EXCEPT !.pc = "inserted", !.last_record_id = last_record_id,
                                 !.stored = posts'[Len(posts')].created_at, !.writes = 1])
        /\ hist' = LET h == [ state |-> "fresh", owner |-> p, returned |-> FALSE,
                               body |-> post, stored |-> posts'[Len(posts')].created_at ]
                   IN IF last_record_id > Len(hist) THEN Append(hist, h)
                      ELSE [hist EXCEPT ![last_record_id] = h]
  /\ UNCHANGED << service, now, users, comments, items, sessions >>

create_post_return(p) ==
  /\ service = "blog"
  /\ reqs[p].pc = "inserted" /\ reqs[p].op = "create_post"
  /\ LET post == reqs[p].body
         id == reqs[p].last_record_id
     IN /\ Answer(p, Respond(reqs[p], 200, "",
                             [ title |-> post.title, content |-> post.content,
                               id |-> id, created_at |-> ResponseCreatedAt(reqs[p]) ]))
        /\ hist' = IF Hist(id).state = "fresh" /\ Hist(id).owner = p /\ ~Hist(id).returned
                   THEN [hist EXCEPT ![id].returned = TRUE]
                   ELSE hist
  /\ UNCHANGED << service, now, users, posts, comments, items, sessions, budget >>

read_posts(p, skip, limit) ==
  /\ service = "blog"
  /\ Accept(p)
  /\ Answer(p, Respond(Request("read_posts", 0, None, skip, limit), 200, "",
                       Limit(Offset(posts, skip), limit)))
  /\ UNCHANGED << service, now, users, posts, comments, items, sessions, hist >>

\* what a lookup of post_id made now has to do with earlier requests
Lookup(r) ==
  [r EXCEPT !.after_delete = (Hist(r.id).state = "deleted"),
            !.fresh = IF Hist(r.id).state = "fresh" /\ Hist(r.id).returned
                      THEN Hist(r.id) ELSE None]

read_post(p, post_id) ==
  /\ service = "blog"
  /\ Accept(p)
  /\ LET post == fetch_one(Where(posts, post_id))
         r == Lookup(Request("read_post", post_id, None, 0, 0))
     IN Answer(p, IF post = None
                  THEN http_exception_handler(r, 404, "Post not found")
                  ELSE [Respond(r, 200, "", post) EXCEPT !.row = post])
  /\ UNCHANGED << service, now, users, posts, comments, items, sessions, hist >>

\* the 404 of update_post and delete_post
post_not_found(r) == http_exception_handler(r, 404, "Post not found")

\* the lookup that opens update_post and delete_post
post_fetch(p, op, post_id, post) ==
  /\ service = "blog"
  /\ Accept(p)
  /\ LET db_post == fetch_one(Where(posts, post_id))
         r == [Lookup(Request(op, post_id, post, 0, 0)) EXCEPT !.fresh = None]
     IN IF db_post = None
        THEN Answer(p, post_not_found(r))
        ELSE Continue(p, [r EXCEPT !.pc = "fetched", !.row = db_post])
  /\ UNCHANGED << service, now, users, posts, comments, items, sessions, hist >>

update_post_fetch(p, post_id, post) == post_fetch(p, "update_post", post_id, post)

\* posts.update().where(posts.c.id == post_id).values(title, content)
UpdateWhere(rows, id, post) ==
  [i \in 1..Len(rows) |->
     IF rows[i].id = id
     THEN [rows[i] EXCEPT !.title = post.title, !.content = post.content]
     ELSE rows[i]]

update_post_response_checked(r, rowcount) ==
  IF rowcount = 0 THEN post_not_found(r)
  ELSE Respond(r, 200, "", [ title |-> r.body.title, content |-> r.body.content,
                             id |-> r.id, created_at |-> r.row.created_at ])

\* the response update_post builds once its update statement has run
update_post_response(r, rowcount) ==
  LET post == r.body
  IN Respond(r, 200, "", [ title |-> post.title, content |-> post.content,
                           id |-> r.id, created_at |-> r.row.created_at ])

Touch(id, state) ==
  IF id \in 1..Len(hist) THEN [hist EXCEPT ![id] = [ state |-> state ]] ELSE hist

update_post_execute(p) ==
  /\ service = "blog"
  /\ reqs[p].pc = "fetched" /\ reqs[p].op = "update_post"
  /\ LET id == reqs[p].id
         hit == Where(posts, id)
     IN /\ posts' = UpdateWhere(posts, id, reqs[p].body)
        /\ Answer(p, [update_post_response(reqs[p], Len(hit))
                        EXCEPT !.stored = IF hit = << >> THEN -1 ELSE hit[1].created_at,
                               !.writes = @ + 1])
        /\ hist' = IF Hist(id).state = "deleted" THEN hist ELSE Touch(id, "touched")
  /\ UNCHANGED << service, now, users, comments, items, sessions, budget >>

delete_post_fetch(p, post_id) == post_fetch(p, "delete_post", post_id, None)

delete_post_execute(p) ==
  /\ service = "blog"
  /\ reqs[p].pc = "fetched" /\ reqs[p].op = "delete_post"
  /\ posts' = DeleteWhere(posts, reqs[p].id)
  /\ Answer(p, [Respond(reqs[p], 204, "", [ ok |-> TRUE ]) EXCEPT !.writes = @ + 1])
  /\ hist' = Touch(reqs[p].id, "deleted")
  /\ UNCHANGED << service, now, users, comments, items, sessions, budget >>

create_comment_insert_fk(p, comment) ==
  /\ service = "blog"
  /\ Accept(p)
  /\ LET r == Request("create_comment", 0, comment, 0, 0)
         last_record_id == lastrowid(comments)
     IN IF Where(posts, comment.post_id) = << >>
        THEN /\ comments' = comments
             /\ Answer(p, general_exception_handler(r))
        ELSE /\ comments' = Append(comments, [ id |-> last_record_id, content |-> comment.content,
                                               post_id |-> comment.post_id, created_at |-> now ])
             /\ Continue(p, [r EXCEPT !.pc = "inserted", !.last_record_id = last_record_id,
                                      !.stored = now, !.writes = 1])
  /\ UNCHANGED << service, now, users, posts, items, sessions, hist >>

\* comments.insert().values(content, post_id); SQLite checks no foreign key unless
\* PRAGMA foreign_keys is switched on, and nothing switches it on
create_comment_insert(p, comment) ==
  /\ service = "blog"
  /\ Accept(p)
  /\ LET r == Request("create_comment", 0, comment, 0, 0)
         last_record_id == lastrowid(comments)
     IN /\ comments' = Append(comments, [ id |-> last_record_id, content |-> comment.content,
                                          post_id |-> comment.post_id, created_at |-> now ])
        /\ Continue(p, [r EXCEPT !.pc = "inserted", !.last_record_id = last_record_id,
                                 !.stored = comments'[Len(comments')].created_at,
                                 !.writes = 1])
  /\ UNCHANGED << service, now, users, posts, items, sessions, hist >>

create_comment_return(p) ==
  /\ service = "blog"
  /\ reqs[p].pc = "inserted" /\ reqs[p].op = "create_comment"
  /\ LET comment == reqs[p].body
     IN Answer(p, Respond(reqs[p], 200, "",
                          [ content |-> comment.content, post_id |-> comment.post_id,
                            id |-> reqs[p].last_record_id,
                            created_at |-> ResponseCreatedAt(reqs[p]) ]))
  /\ UNCHANGED << service, now, users, posts, comments, items, sessions, budget, hist >>

\* ------------------------------------------------------------- items API
\* SessionLocal(): a Session no request holds
SessionLocal(p) ==
  LET taken == { s.h : s \in sessions }
      h == CHOOSE k \in 1..(Cardinality(taken) + 1) : k \notin taken
  IN [ h |-> h, owner |-> p, closed |-> 0, used_by |-> {} ]

\* request p sends a statement through Session h
Use(h, p) ==
  { IF s.h = h THEN [s EXCEPT !.used_by = @ \cup { p }] ELSE s : s \in sessions }

\* db.close()
Close(h) ==
  { IF s.h = h THEN [s EXCEPT !.closed = @ + 1] ELSE s : s \in sessions }

\* Sessions of requests answered before the one that held h are garbage
Forget(ss, h) == { s \in ss : s.closed = 0 \/ s.h = h }

\* the handler returned or raised: what is left is get_db's finally
Return(r, status, detail, out) ==
  [Respond(r, status, detail, out) EXCEPT !.pc = "finally"]

internal_server_error(r) == Return(r, 500, "Internal Server Error", None)

item_not_found_copied(r) == Return(r, 404, "Post not found", None)

item_not_found(r) == Return(r, 404, "Item not found", None)

\* a request arrives and get_db runs up to its yield
get_db(p, r) ==
  /\ service = "items"
  /\ Accept(p)
  /\ LET db == SessionLocal(p)
     IN /\ sessions' = sessions \cup { db }
        /\ Continue(p, [r EXCEPT !.pc = "handler", !.db = db.h])
  /\ UNCHANGED << service, now, users, posts, comments, items, hist >>

get_db_no_finally(p) ==
  /\ service = "items"
  /\ reqs[p].pc = "finally"
  /\ sessions' = IF reqs[p].status = 200 THEN Forget(Close(reqs[p].db), reqs[p].db)
                 ELSE Forget(sessions, reqs[p].db)
  /\ Answer(p, [reqs[p] EXCEPT !.pc = "done"])
  /\ UNCHANGED << service, now, users, posts, comments, items, budget, hist >>

\* get_db after its yield, on every way out of the handler
get_db_finally(p) ==
  /\ service = "items"
  /\ reqs[p].pc = "finally"
  /\ sessions' = Forget(Close(reqs[p].db), reqs[p].db)
  /\ Answer(p, [reqs[p] EXCEPT !.pc = "done"])
  /\ UNCHANGED << service, now, users, posts, comments, items, budget, hist >>

\* db.add(db_item); db.commit()
create_item_commit(p) ==
  /\ service = "items"
  /\ reqs[p].pc = "handler" /\ reqs[p].op = "create_item"
  /\ LET item == reqs[p].body
         db_item == [ id |-> lastrowid(items), name |-> item.name,
                      description |-> item.description ]
     IN /\ items' = Append(items, db_item)
        /\ Continue(p, [reqs[p] EXCEPT !.pc = "refresh", !.row = db_item,
                                        !.last_record_id = db_item.id, !.writes = @ + 1])
  /\ sessions' = Use(reqs[p].db, p)
  /\ UNCHANGED << service, now, users, posts, comments, budget, hist >>

\* db.refresh(db_item); return db_item
item_refresh(p) ==
  /\ service = "items"
  /\ reqs[p].pc = "refresh"
  /\ LET db_item == fetch_one(Where(items, reqs[p].row.id))
     IN Continue(p, IF db_item = None
                    THEN internal_server_error(reqs[p])  \* InvalidRequestError: could not refresh
                    ELSE Return(reqs[p], 200, "", db_item))
  /\ sessions' = Use(reqs[p].db, p)
  /\ UNCHANGED << service, now, users, posts, comments, items, budget, hist >>

read_items(p) ==
  /\ service = "items"
  /\ reqs[p].pc = "handler" /\ reqs[p].op = "read_items"
  /\ Continue(p, Return(reqs[p], 200, "", Limit(Offset(items, reqs[p].skip), reqs[p].limit)))
  /\ sessions' = Use(reqs[p].db, p)
  /\ UNCHANGED << service, now, users, posts, comments, items, budget, hist >>

read_item(p) ==
  /\ service = "items"
  /\ reqs[p].pc = "handler" /\ reqs[p].op = "read_item"
  /\ LET db_item == fetch_one(Where(items, reqs[p].id))
     IN Continue(p, IF db_item = None
                    THEN item_not_found(reqs[p])
                    ELSE [Return(reqs[p], 200, "", db_item) EXCEPT !.row = db_item])
  /\ sessions' = Use(reqs[p].db, p)
  /\ UNCHANGED << service, now, users, posts, comments, items, budget, hist >>

\* the lookup that opens update_item and delete_item
item_query(p, op) ==
  /\ service = "items"
  /\ reqs[p].pc = "handler" /\ reqs[p].op = op
  /\ LET db_item == fetch_one(Where(items, reqs[p].id))
     IN Continue(p, IF db_item = None
                    THEN item_not_found(reqs[p])
                    ELSE [reqs[p] EXCEPT !.pc = "loaded", !.row = db_item])
  /\ sessions' = Use(reqs[p].db, p)
  /\ UNCHANGED << service, now, users, posts, comments, items, budget, hist >>

update_item_query(p) == item_query(p, "update_item")

\* the columns the setattr loop changed on db_item
Dirty(db_item, item) ==
  { k \in { "name", "description" } : db_item[k] /= item[k] }

\* UPDATE items SET <dirty columns> WHERE items.id = id
FlushUpdate(rows, id, item, dirty) ==
  [i \in 1..Len(rows) |->
     IF rows[i].id = id
     THEN [k \in DOMAIN rows[i] |-> IF k \in dirty THEN item[k] ELSE rows[i][k]]
     ELSE rows[i]]

update_item_commit(p) ==
  /\ service = "items"
  /\ reqs[p].pc = "loaded" /\ reqs[p].op = "update_item"
  /\ LET db_item == reqs[p].row
         dirty == Dirty(db_item, reqs[p].body)
     IN IF dirty = {}
        THEN \* nothing to flush
             /\ items' = items
             /\ Continue(p, [reqs[p] EXCEPT !.pc = "refresh"])
        ELSE IF Where(items, db_item.id) = << >>
        THEN \* StaleDataError: the UPDATE matched no row
             /\ items' = items
             /\ Continue(p, [internal_server_error(reqs[p]) EXCEPT !.writes = @ + 1])
        ELSE /\ items' = FlushUpdate(items, db_item.id, reqs[p].body, dirty)
             /\ Continue(p, [reqs[p] EXCEPT !.pc = "refresh", !.writes = @ + 1])
  /\ sessions' = Use(reqs[p].db, p)
  /\ UNCHANGED << service, now, users, posts, comments, budget, hist >>

delete_item_query(p) == item_query(p, "delete_item")

\* db.delete(db_item); db.commit(); return db_item
delete_item_commit(p) ==
  /\ service = "items"
  /\ reqs[p].pc = "loaded" /\ reqs[p].op = "delete_item"
  /\ items' = DeleteWhere(items, reqs[p].row.id)
  /\ Continue(p, [Return(reqs[p], 200, "", reqs[p].row) EXCEPT !.writes = @ + 1])
  /\ sessions' = Use(reqs[p].db, p)
  /\ UNCHANGED << service, now, users, posts, comments, budget, hist >>

\* ------------------------------------------------------------- specification
PathIds == { 1 }
ListArgs == { << default_skip, default_limit_posts >>, << 1, 1 >> }
ItemBodies == { [name |-> "pen", description |-> "null"], [name |-> "ink", description |-> "blue"] }

ItemRequests ==
       { Request("create_item", 0, b, 0, 0) : b \in ItemBodies }
  \cup { Request("read_items", 0, None, a[1], a[2]) :
           a \in { << default_skip, default_limit_items >>, << 1, 1 >> } }
  \cup { Request("read_item", i, None, 0, 0) : i \in PathIds }
  \cup { Request("update_item", i, b, 0, 0) : i \in PathIds, b \in ItemBodies }
  \cup { Request("delete_item", i, None, 0, 0) : i \in PathIds }

\* test.db outlives the process: a table is empty at start, or holds a row of an earlier run
OldPost == [ id |-> 1, title |-> "t1", content |-> "c1", created_at |-> 0 ]
OldItem == [ id |-> 1, name |-> "pen", description |-> "null" ]
Old == [ state |-> "old" ]

Init ==
  /\ service \in { "blog", "items" }
  /\ now = 0
  /\ users = << >> /\ comments = << >>
  /\ posts \in IF service = "blog" THEN { << >>, << OldPost >> } ELSE { << >> }
  /\ items \in IF service = "items" THEN { << >>, << OldItem >> } ELSE { << >> }
  /\ sessions = {}
  /\ reqs = [p \in Procs |-> Idle]
  /\ budget = MaxReqs
  /\ last = Idle
  /\ hist = IF posts = << >> THEN << >> ELSE << Old >>

\* a request arrives and its handler runs up to its first awaited statement
Arrive(p) ==
  \/ \E i \in CallerIds, u \in UserNames : create_user(p, [ id |-> i, username |-> u ])
  \/ \E b \in PostBodies, t0 \in 0..now : create_post_insert(p, b, t0)
  \/ \E a \in ListArgs : read_posts(p, a[1], a[2])
  \/ \E i \in PathIds : read_post(p, i)
  \/ \E i \in PathIds, b \in PostBodies : update_post_fetch(p, i, b)
  \/ \E i \in PathIds : delete_post_fetch(p, i)
  \/ \E c \in CommentTexts, i \in PathIds : create_comment_insert(p, [ content |-> c, post_id |-> i ])
  \/ \E r \in ItemRequests : get_db(p, r)

Step(p) ==
  \/ create_post_return(p)
  \/ update_post_execute(p)
  \/ delete_post_execute(p)
  \/ create_comment_return(p)
  \/ get_db_finally(p)
  \/ create_item_commit(p)
  \/ item_refresh(p)
  \/ read_items(p)
  \/ read_item(p)
  \/ update_item_query(p)
  \/ update_item_commit(p)
  \/ delete_item_query(p)
  \/ delete_item_commit(p)

Next ==
  \/ \E p \in Procs : Arrive(p)
  \/ \E p \in Procs : Step(p)
  \/ Tick

Spec == Init /\ [][Next]_vars

\* ------------------------------------------------------------- listing
\* One client fills a table row by row, now and then deletes the first row, and lists the
\* table with every skip and limit of -1..MaxSkip and with the defaults.
ListBody == [title |-> "t1", content |-> "c1"]
ListItem == [name |-> "pen", description |-> "null"]
Skips == -1..MaxSkip
LimitsPosts == (-1..MaxSkip) \cup { default_limit_posts }
LimitsItems == (-1..MaxSkip) \cup { default_limit_items }

InitList ==
  /\ service \in { "blog", "items" }
  /\ now = 0
  /\ users = << >> /\ posts = << >> /\ comments = << >> /\ items = << >>
  /\ sessions = {}
  /\ reqs = [p \in Procs |-> Idle]
  /\ budget = MaxListRows + 3
  /\ last = Idle
  /\ hist = << >>

ArriveList(p) ==
  \/ create_post_insert(p, ListBody, now)
  \/ \E skip \in Skips, limit \in LimitsPosts : read_posts(p, skip, limit)
  \/ \E i \in PathIds : delete_post_fetch(p, i)
  \/ get_db(p, Request("create_item", 0, ListItem, 0, 0))
  \/ \E skip \in Skips, limit \in LimitsItems : get_db(p, Request("read_items", 0, None, skip, limit))
  \/ \E i \in PathIds : get_db(p, Request("delete_item", i, None, 0, 0))

StepList(p) ==
  \/ create_post_return(p)
  \/ delete_post_execute(p)
  \/ get_db_finally(p)
  \/ create_item_commit(p)
  \/ item_refresh(p)
  \/ read_items(p)
  \/ delete_item_query(p)
  \/ delete_item_commit(p)

NextList == ArriveList(1) \/ StepList(1)

SpecList == InitList /\ [][NextList]_vars

\* ------------------------------------------------------------- properties
Answered(ops) == last.pc = "done" /\ last.op \in ops

Tables == << users, posts, comments, items >>

\* worker p runs the update statement of update_post in this step
UpdateStatement(p) ==
  reqs[p].pc = "fetched" /\ reqs[p].op = "update_post" /\ reqs'[p].pc = "idle"

\* C1 (the part that holds): the update statement of update_post changes nothing but the
\* title and content of the rows with its id: the posts table keeps its length, every row
\* keeps its id and created_at, rows with another id are unchanged, and so are the users,
\* comments and items tables.
C1_UpdateFrame ==
  [][\A p \in Procs : UpdateStatement(p) =>
       /\ Len(posts') = Len(posts)
       /\ \A i \in 1..Len(posts) :
            /\ posts'[i].id = posts[i].id
            /\ posts'[i].created_at = posts[i].created_at
            /\ posts[i].id /= reqs[p].id => posts'[i] = posts[i]
            /\ posts[i].id = reqs[p].id =>
                 posts'[i].title = reqs[p].body.title /\ posts'[i].content = reqs[p].body.content
       /\ users' = users /\ comments' = comments /\ items' = items]_vars

C1_FrameWitness ==
  /\ Answered({ "update_post" }) /\ last.stored /= -1
  /\ Len(posts) = 2
  /\ \E i \in 1..Len(posts) : posts[i].id = last.id /\ posts[i].title = last.body.title

\* C1: update_post changes only the title and content of the row with its id (id and
\* created_at of that row stay, every other row of every table stays), and the created_at
\* of its response is the created_at that row had when the update statement ran.
C1_UpdatePreservesCreatedAt ==
  [][\A p \in Procs : UpdateStatement(p) =>
       /\ Len(posts') = Len(posts)
       /\ \A i \in 1..Len(posts) :
            /\ posts'[i].id = posts[i].id
            /\ posts'[i].created_at = posts[i].created_at
            /\ posts[i].id /= reqs[p].id => posts'[i] = posts[i]
            /\ posts[i].id = reqs[p].id => last'.out.created_at = posts[i].created_at
       /\ users' = users /\ comments' = comments /\ items' = items]_vars

\* C2: once delete_post has succeeded for an id, a read_post or delete_post whose lookup
\* comes later, and before an insert hands the id out again, answers 404 "Post not
\* found"; no such delete_post gets as far as its delete statement.
C2_DeletedStays404 ==
  /\ Answered({ "read_post", "delete_post" }) /\ last.after_delete =>
       last.status = 404 /\ last.detail = "Post not found"
  /\ \A p \in Procs : reqs[p].pc = "fetched" /\ reqs[p].op = "delete_post" =>
       ~reqs[p].after_delete

C2_Witness ==
  Answered({ "delete_post" }) /\ last.after_delete /\ last.status = 404

\* C4: the created_at a create_post stores lies between its arrival and its response;
\* and a read_post of an id that create_post has returned, made before any update or
\* delete of that id, answers 200 with the title and content of that create_post and
\* the created_at it stored.
C4_CreateThenRead ==
  /\ Answered({ "create_post" }) =>
       /\ last.status = 200
       /\ last.out.id = last.last_record_id
       /\ last.t0 <= last.stored /\ last.stored <= now
  /\ Answered({ "read_post" }) /\ last.fresh /= None =>
       /\ last.status = 200
       /\ last.out.id = last.id
       /\ last.out.title = last.fresh.body.title
       /\ last.out.content = last.fresh.body.content
       /\ last.out.created_at = last.fresh.stored

\* a post created after the clock has moved, and read back
C4_Witness ==
  /\ Answered({ "read_post" }) /\ last.fresh /= None /\ last.status = 200
  /\ last.out.created_at > 0

ByIdPosts == { "read_post", "update_post", "delete_post" }
ByIdItems == { "read_item", "update_item", "delete_item" }

\* C5: a by-id request whose lookup found no row is answered 404 with "Post not found"
\* (posts) or "Item not found" (items), has sent no statement that writes, and the step
\* that sends a 404 changes no table.
C5_NotFound ==
  /\ [](Answered(ByIdPosts) /\ last.row = None =>
          last.status = 404 /\ last.detail = "Post not found" /\ last.writes = 0)
  /\ [](Answered(ByIdItems) /\ last.row = None =>
          last.status = 404 /\ last.detail = "Item not found" /\ last.writes = 0)
  /\ [](\A p \in Procs : reqs[p].op \in ByIdItems /\ reqs[p].row = None =>
          reqs[p].writes = 0 /\ reqs[p].pc \in { "handler", "finally" })
  /\ [][last'.pc = "done" /\ last'.status = 404 => Tables' = Tables]_vars

C5_Witness ==
  \/ Answered({ "delete_post" }) /\ last.row = None /\ last.status = 404 /\ posts /= << >>
  \/ Answered({ "delete_item" }) /\ last.row = None /\ last.status = 404 /\ items /= << >>

InFlight(p) == reqs[p].pc \in { "handler", "loaded", "refresh", "finally" }

\* C6: in the items API a request in flight holds a Session of its own that is open; when
\* the request is answered, by a return, a 404 or a fault of commit or refresh, its
\* Session has been closed exactly once; a Session is used only by the request that
\* opened it.
C6_SessionClosedOnce ==
  /\ \A s \in sessions : s.closed <= 1 /\ s.used_by \subseteq { s.owner }
  /\ \A s, t \in sessions : s.h = t.h => s = t
  /\ \A p \in Procs : service = "items" /\ InFlight(p) =>
       \E s \in sessions : s.h = reqs[p].db /\ s.owner = p /\ s.closed = 0
  /\ \A p, q \in Procs : InFlight(p) /\ InFlight(q) /\ p /= q => reqs[p].db /= reqs[q].db
  /\ service = "items" /\ last.pc = "done" =>
       \E s \in sessions : s.h = last.db /\ s.closed = 1

C6_Witness ==
  /\ service = "items" /\ last.pc = "done" /\ last.status = 500
  /\ \E s \in sessions : s.h = last.db /\ s.closed = 1 /\ s.used_by /= {}

UniqueIds(rows) == \A i, j \in 1..Len(rows) : rows[i].id = rows[j].id => i = j

\* what one step may do to the ids of a table: nothing, add one at the end, drop one
IdsKept(old, new) ==
  \/ Len(new) = Len(old) /\ \A i \in 1..Len(old) : new[i].id = old[i].id
  \/ /\ Len(new) = Len(old) + 1
     /\ \A i \in 1..Len(old) : new[i].id = old[i].id
     /\ new[Len(new)].id \notin Ids(old)
  \/ /\ Len(new) = Len(old) - 1
     /\ \E j \in 1..Len(old) :
          \A i \in 1..Len(new) : new[i].id = IF i < j THEN old[i].id ELSE old[i + 1].id

\* C7: no two rows of a table share an id; no step changes the id of a row that stays;
\* create_user answers with the id of the row it inserted, whatever id the caller sent.
C7_IdsUniqueAndStable ==
  /\ [](UniqueIds(users) /\ UniqueIds(posts) /\ UniqueIds(comments) /\ UniqueIds(items))
  /\ [][IdsKept(users, users') /\ IdsKept(posts, posts')
        /\ IdsKept(comments, comments') /\ IdsKept(items, items')]_vars
  /\ [](Answered({ "create_user" }) /\ last.status = 200 =>
          \E i \in 1..Len(users) :
            /\ users[i].id = last.out.id
            /\ users[i].username = last.body.username
            /\ last.out.username = last.body.username)

C7_Witness ==
  /\ Answered({ "create_user" }) /\ last.status = 200 /\ last.out.id /= last.body.id
  /\ Len(users) = 2

\* C8: an update_post whose lookup found a row answers 200 with the submitted title and
\* content and its id, whether or not its update statement matched a row.
C8_UpdateAnswersSuccess ==
  Answered({ "update_post" }) /\ last.row /= None =>
    /\ last.status = 200
    /\ last.out.id = last.id
    /\ last.out.title = last.body.title
    /\ last.out.content = last.body.content

\* a delete_post committed between the lookup and the update statement
C8_Witness ==
  /\ Answered({ "update_post" }) /\ last.status = 200
  /\ last.stored = -1
  /\ Hist(last.id).state = "deleted"
  /\ Where(posts, last.id) = << >>

\* C9: create_comment answers 200 for every post_id and the comments table holds the row
\* it answers with.
C9_CommentAlwaysInserted ==
  Answered({ "create_comment" }) =>
    /\ last.status = 200
    /\ \E i \in 1..Len(comments) :
         /\ comments[i].id = last.out.id
         /\ comments[i].post_id = last.body.post_id
         /\ comments[i].content = last.body.content
         /\ last.out.post_id = last.body.post_id

\* a comment on a post id no insert has ever handed out
C9_Witness ==
  /\ Answered({ "create_comment" }) /\ last.status = 200
  /\ Hist(last.body.post_id).state = "untracked"
  /\ \E i \in 1..Len(comments) : comments[i].post_id \notin Ids(posts)

\* C10: the created_at of a create_post or create_comment response is never earlier than
\* the created_at its insert stored.
C10_ResponseNotEarlier ==
  Answered({ "create_post", "create_comment" }) => last.out.created_at >= last.stored

\* create_post answers a created_at later than the one of the row it inserted, which is
\* the one read_post returns
C10_Witness ==
  /\ Answered({ "create_post" })
  /\ Hist(last.out.id).state = "fresh"
  /\ \E i \in 1..Len(posts) :
       /\ posts[i].id = last.out.id
       /\ posts[i].created_at = last.stored
       /\ posts[i].created_at < last.out.created_at

Min(a, b) == IF a <= b THEN a ELSE b
Max(a, b) == IF a >= b THEN a ELSE b

\* out is the rows at positions skip+1 .. skip+limit of rows, as far as they exist
Page(rows, skip, limit, out) ==
  /\ Len(out) = Min(limit, Max(0, Len(rows) - skip))
  /\ \A i \in 1..Len(out) : out[i] = rows[skip + i]
  /\ \A i, j \in 1..Len(out) : i < j => out[i].id < out[j].id

\* C3: with skip >= 0 and limit >= 0, read_posts and read_items answer with exactly
\* min(limit, max(0, n - skip)) rows of the n in the table, those at positions skip+1 ..
\* skip+limit in insertion order; with the defaults and 15 posts, the first 10 posts.
C3_Pagination ==
  [][/\ last' /= last /\ last'.op = "read_posts" /\ last'.skip >= 0 /\ last'.limit >= 0 =>
          /\ last'.status = 200
          /\ Page(posts, last'.skip, last'.limit, last'.out)
          /\ last'.skip = default_skip /\ last'.limit = default_limit_posts /\ Len(posts) = 15 =>
               last'.out = SubSeq(posts, 1, 10)
     /\ \A p \in Procs :
          /\ reqs[p].pc = "handler" /\ reqs[p].op = "read_items" /\ reqs'[p].pc = "finally"
          /\ reqs[p].skip >= 0 /\ reqs[p].limit >= 0
          => /\ reqs'[p].status = 200
             /\ Page(items, reqs[p].skip, reqs[p].limit, reqs'[p].out)]_vars

\* 15 posts, the first of them not the first inserted, listed with the defaults
C3_Witness ==
  /\ Answered({ "read_posts" }) /\ last.skip = default_skip /\ last.limit = default_limit_posts
  /\ Len(posts) = 15 /\ Len(last.out) = 10 /\ last.out[1].id = 2 /\ last.out[10].id = 11

====
